---- MODULE Spec2Model ----
(***************************************************************************)
(* FastEnum (fastenum_meta/fastenum.py): the metaclass that turns a class *)
(* body into a sealed enumeration.  A class body is a sequence of member  *)
(* statements; the name of a member is its position in the body, so name  *)
(* 1 is the identifier that appears first in the source.                  *)
(***************************************************************************)
EXTENDS Integers, Sequences, FiniteSets, TLC

VARIABLES types, heap, last

vars == <<types, heap, last>>

\* ---------------------------------------------------------------- bounds
MaxNames == 3        \* member statements in the body of a stand-alone class
MaxVal == 2          \* explicit values are 1..MaxVal
MaxTypes == 3        \* classes declared in one family of classes
MaxModuleTypes == 2  \* classes of a module that also works on the members

\* ------------------------------------------------------- class bodies
\* kind "auto"   : NAME: 'Cls'          (annotation only)
\* kind "value"  : NAME = v  or  NAME = v, extra
\* kind "annval" : NAME: 'Cls' = v  or  NAME: 'Cls' = v, extra
\* extra = 0 stands for a scalar, extra > 0 for the tuple (val, extra)
Entry(kind, val, extra) == [kind |-> kind, val |-> val, extra |-> extra]

Entries(vals, extras) ==
    {Entry("auto", 0, 0)} \cup
    {Entry(k, v, e) : k \in {"value", "annval"}, v \in vals, e \in extras}

Bodies(n, vals, extras) ==
    UNION {[1..k -> Entries(vals, extras)] : k \in 0..n}

\* zero : _ZERO_VALUED = True in the body
\* init : "custom" when the body defines __init__(self, value, desc, name)
\* hook : the body defines __init_late (halved_value = cls(value // 2))
\* the extra argument of a member statement NAME = v, desc
Descs == {2}

\* bodies of a class that defines __init__(self, value, desc, name)
CustomBodies(n, vals, extras) ==
    UNION {[1..k -> {Entry("auto", 0, 0)} \cup
                    {Entry("value", v, e) : v \in vals, e \in extras}]
           : k \in 0..n}

Declarations ==
    [zero : BOOLEAN, init : {"none"}, hook : BOOLEAN,
     body : Bodies(MaxNames, 1..MaxVal, {0})]
    \cup
    [zero : {FALSE}, init : {"custom"}, hook : {FALSE},
     body : CustomBodies(MaxNames, 1..MaxVal, {0} \cup Descs)]

\* a family: base classes and their subclasses, each body holding at most
\* one member statement, ONE = 1 or ONE = 1, desc

FamilyEntries == {Entry("value", 1, e) : e \in {0} \cup Descs}

FamilyDeclarations ==
    [zero : {FALSE}, init : {"none", "custom"}, hook : {FALSE},
     body : {<<>>} \cup {<<e>> : e \in FamilyEntries}]

\* the family, and a zero-based class ZERO: 'Cls' with __init_late
ProgramDeclarations ==
    FamilyDeclarations \cup
    {[zero |-> TRUE, init |-> "none", hook |-> TRUE,
      body |-> <<Entry("auto", 0, 0)>>]}

\* a class that defines __init__(self, value, name) storing another value
\* than the one it is given: "constant" stores 0, "successor" value + 1
StoredDeclarations ==
    [zero : {FALSE}, init : {"constant", "successor"}, hook : {FALSE},
     body : UNION {[1..k -> {Entry("auto", 0, 0)} \cup
                            {Entry("value", v, 0) : v \in 1..MaxVal}]
                   : k \in 0..MaxNames}]

NoDecl == [zero |-> FALSE, init |-> "none", hook |-> FALSE, body |-> <<>>]

\* ------------------------------------------------- __new__, lines 42-52
Indices(body) == [i \in 1..Len(body) |-> i]

NamespaceKeys(body) ==
    SelectSeq(Indices(body), LAMBDA i : body[i].kind \in {"value", "annval"})

Annotated(body) ==
    SelectSeq(Indices(body), LAMBDA i : body[i].kind \in {"auto", "annval"})

Attributes(body) == NamespaceKeys(body) \o Annotated(body)

InitialNamespace(body) ==
    [i \in {j \in 1..Len(body) : body[j].kind \in {"value", "annval"}} |->
        [val |-> body[i].val, extra |-> body[i].extra]]

\* the base when _ZERO_VALUED is not read
LightBaseIgnoresSwitch(zero) == 1

LightBase(zero) == IF zero THEN 0 ELSE 1

\* the loop body counting the names that already have a value too
LightStepCountsAll(attr, acc) ==
    IF attr \in DOMAIN acc.namespace
    THEN [acc EXCEPT !.light_val = acc.light_val + 1]
    ELSE [namespace |-> acc.namespace @@
                        (attr :> [val |-> acc.light_val, extra |-> 0]),
          light_val |-> acc.light_val + 1]

\* the loop body without `light_val += 1`
LightStepNoIncrement(attr, acc) ==
    IF attr \in DOMAIN acc.namespace THEN acc
    ELSE [namespace |-> acc.namespace @@
                        (attr :> [val |-> acc.light_val, extra |-> 0]),
          light_val |-> acc.light_val]

\* the body of the loop of lines 47-52
LightStep(attr, acc) ==
    IF attr \in DOMAIN acc.namespace THEN acc
    ELSE [namespace |-> acc.namespace @@
                        (attr :> [val |-> acc.light_val, extra |-> 0]),
          light_val |-> acc.light_val + 1]

RECURSIVE LightLoop(_, _, _)
LightLoop(attributes, k, acc) ==
    IF k > Len(attributes) THEN acc
    ELSE LightLoop(attributes, k + 1, LightStep(attributes[k], acc))

AssignValues(zero, body) ==
    LightLoop(Attributes(body), 1,
              [namespace |-> InitialNamespace(body), light_val |-> LightBase(zero)])

\* ------------------------------------------------------- class objects
Max(S) == IF S = {} THEN 0 ELSE CHOOSE x \in S : \A y \in S : y <= x

\* The metaclass keeps every class it has built in `types`; the member
\* objects live in `heap`.  A member is referred to by its heap index, so
\* two references are the identical object iff the indices are equal.
RECURSIVE Mro(_, _)
Mro(ts, c) ==
    <<c>> \o (IF ts[c].bases = <<>> THEN <<>> ELSE Mro(ts, ts[c].bases[1]))

MroSet(ts, c) == {Mro(ts, c)[i] : i \in 1..Len(Mro(ts, c))}

\* the first class of the mro of c that is in `having` (the classes whose own
\* dict holds the attribute looked up), 0 when there is none
FirstInMro(ts, c, having) ==
    LET m == Mro(ts, c)
        hits == {i \in 1..Len(m) : m[i] \in having}
    IN IF hits = {} THEN 0 ELSE m[CHOOSE i \in hits : \A j \in hits : i <= j]

\* getattr(cls, '__init__'): "object" stands for object.__init__
LookupInit(ts, c) ==
    LET o == FirstInMro(ts, c, {x \in 1..Len(ts) : ts[x].init # "none"})
    IN IF o = 0 THEN "object" ELSE ts[o].init

\* _resolve_init, lines 20-25: "none" stands for the implicit return of None
RECURSIVE ResolveInitFrom(_, _, _)
ResolveInitFrom(ts, bases, k) ==
    IF k > Len(bases) THEN "none"
    ELSE IF LookupInit(ts, bases[k]) # "object" THEN LookupInit(ts, bases[k])
    ELSE ResolveInitFrom(ts, bases, k + 1)

ResolveInit(ts, bases) == ResolveInitFrom(ts, bases, 1)

\* _finalized looked up in the class's own dict only
HasFinalizedOwnOnly(ts, c) == ts[c].finalized

\* hasattr(cls, '_finalized'), lines 140 and 145
HasFinalized(ts, c) == FirstInMro(ts, c, {x \in 1..Len(ts) : ts[x].finalized}) # 0

\* _value_to_instance_map is a dict that keeps insertion order
MapHas(map, key) == \E i \in 1..Len(map) : map[i].key = key

MapGet(map, key) == map[CHOOSE i \in 1..Len(map) : map[i].key = key].inst

MapPut(map, key, inst) ==
    IF MapHas(map, key)
    THEN [i \in 1..Len(map) |->
            IF map[i].key = key THEN [key |-> key, inst |-> inst] ELSE map[i]]
    ELSE Append(map, [key |-> key, inst |-> inst])

MapValues(map) == [i \in 1..Len(map) |-> map[i].inst]

\* setattr on the class dict of member names
Bind(attrs, name, inst) ==
    [n \in (DOMAIN attrs) \cup {name} |-> IF n = name THEN inst ELSE attrs[n]]

\* lines 69-70
Normalize(raw) == IF raw.extra = 0 THEN <<raw.val>> ELSE <<raw.val, raw.extra>>

\* the value an __init__(self, value, name) leaves in instance.value
Stored(init, value) ==
    IF init = "constant" THEN 0
    ELSE IF init = "successor" THEN value + 1
    ELSE value

\* typ(*val, name=instance_name) before sealing: object.__new__, then the
\* __init__ of the namespace.  "default" is FastEnum.__init (lines 101-104),
\* "custom" is __init__(self, value, desc, name) of the tests and examples.
Construct(init, val, instance_name, t) ==
    IF init \in {"default", "constant", "successor"} /\ Len(val) = 1
    THEN [ok |-> TRUE,
          inst |-> [cls |-> t, name |-> instance_name,
                    value |-> Stored(init, val[1]),
                    desc |-> 0, halved_value |-> 0]]
    ELSE IF init = "custom" /\ Len(val) = 2
    THEN [ok |-> TRUE,
          inst |-> [cls |-> t, name |-> instance_name, value |-> val[1],
                    desc |-> val[2], halved_value |-> 0]]
    ELSE [ok |-> FALSE,
          inst |-> [cls |-> t, name |-> 0, value |-> 0, desc |-> 0,
                    halved_value |-> 0]]

\* ------------------------------------------------- FastEnum.get, 107-121
Result(out, inst) == [out |-> out, inst |-> inst]

\* get falling back to the first member for a value that is not registered
GetWithDefault(ts, typ, val) ==
    IF ts[typ].hasMap /\ ts[typ].map # <<>> /\ ~MapHas(ts[typ].map, val)
    THEN Result("ok", ts[typ].map[1].inst)
    ELSE Result("ValueError", 0)

Get(ts, typ, val) ==
    IF ~ts[typ].hasMap
    THEN LET m == Mro(ts, typ)
             hits == {i \in 2..Len(m) : ts[m[i]].hasMap}
         IN IF hits = {} THEN Result("ValueError", 0)
            ELSE LET cls == m[CHOOSE i \in hits : \A j \in hits : i <= j]
                 IN IF MapHas(ts[cls].map, val)
                    THEN Result("ok", MapGet(ts[cls].map, val))
                    ELSE Result("KeyError", 0)
    ELSE IF MapHas(ts[typ].map, val)
         THEN Result("ok", MapGet(ts[typ].map, val))
         ELSE Result("ValueError", 0)

\* the arguments of the exception get raises: KeyError(val) at line 115,
\* ValueError(f'Value {val} is not found ...') at lines 116 and 120
RaisedArgs(r, val) ==
    IF r.out \in {"ValueError", "KeyError"} THEN <<val>> ELSE <<>>

\* typ(val) once typ.__call__ = typ.__new__ = typ.get is installed (line 79):
\* type.__call__ runs typ.__new__, that is get(typ, val), and then, when the
\* result is an instance of typ, the __init__ its class resolves to with the
\* one positional argument val.  After `del typ.__init__` (line 80) that is
\* object.__init__ for a class without bases, which accepts the argument; an
\* __init__ found in a base class (lines 57-58) lacks its required arguments.
CallType(ts, hp, typ, val) ==
    LET r == Get(ts, typ, val)
    IN IF r.out # "ok" THEN r
       ELSE IF typ \in MroSet(ts, hp[r.inst].cls)
               /\ LookupInit(ts, hp[r.inst].cls) # "object"
       THEN Result("TypeError", 0)
       ELSE r

\* whether typ(val) goes through get at all
GetInstalled(ts, c) == FirstInMro(ts, c, {x \in 1..Len(ts) : ts[x].get_installed}) # 0

\* ------------------------------------------------- __new__, lines 65-76
\* the loop body without the test of line 71: every name gets an instance
BuildStepNoAlias(instance_name, raw, init, t, acc) ==
    LET val == Normalize(raw)
        c == Construct(init, val, instance_name, t)
        inst == Len(acc.heap) + 1
    IN IF ~c.ok THEN [acc EXCEPT !.out = "TypeError"]
       ELSE [map |-> MapPut(acc.map, c.inst.value, inst),
             attrs |-> Bind(acc.attrs, instance_name, inst),
             heap |-> Append(acc.heap, c.inst),
             out |-> "ok"]

\* the loop body calling the constructor for an alias too, and binding
\* the name to the member that is registered
BuildStepConstructsAlias(instance_name, raw, init, t, acc) ==
    LET val == Normalize(raw)
        c == Construct(init, val, instance_name, t)
        inst == Len(acc.heap) + 1
    IN IF ~c.ok THEN [acc EXCEPT !.out = "TypeError"]
       ELSE IF MapHas(acc.map, val[1])
       THEN [acc EXCEPT !.attrs = Bind(acc.attrs, instance_name,
                                       MapGet(acc.map, val[1])),
                        !.heap = Append(acc.heap, c.inst)]
       ELSE [map |-> MapPut(acc.map, c.inst.value, inst),
             attrs |-> Bind(acc.attrs, instance_name, inst),
             heap |-> Append(acc.heap, c.inst),
             out |-> "ok"]

\* the body of the loop of lines 67-76
BuildStep(instance_name, raw, init, t, acc) ==
    LET val == Normalize(raw)
    IN IF MapHas(acc.map, val[1])
       THEN [acc EXCEPT !.attrs = Bind(acc.attrs, instance_name,
                                       MapGet(acc.map, val[1]))]
       ELSE LET c == Construct(init, val, instance_name, t)
                inst == Len(acc.heap) + 1
            IN IF ~c.ok THEN [acc EXCEPT !.out = "TypeError"]
               ELSE [map |-> MapPut(acc.map, c.inst.value, inst),
                     attrs |-> Bind(acc.attrs, instance_name, inst),
                     heap |-> Append(acc.heap, c.inst),
                     out |-> "ok"]

RECURSIVE BuildLoop(_, _, _, _, _, _)
BuildLoop(attributes, k, namespace, init, t, acc) ==
    IF k > Len(attributes) \/ acc.out # "ok" THEN acc
    ELSE BuildLoop(attributes, k + 1, namespace, init, t,
                   BuildStep(attributes[k], namespace[attributes[k]], init, t, acc))

\* ------------------------------- __restrict_modification, 97 and 131-134
\* line 97 left out: the members keep object's __setattr__ and __delattr__
RestrictedNotInstalled(ts, cls) == FALSE

\* the __setattr__ and __delattr__ an instance's class resolves to: line 97
\* installs __restrict_modification (lines 131-134), else object's
Restricted(ts, cls) == FirstInMro(ts, cls, {x \in 1..Len(ts) : ts[x].restricted}) # 0

Fields == {"name", "value", "desc", "halved_value"}

\* name, value, an extra field, and a name that is no slot
AskedFields == {"name", "value", "desc", "other"}

\* setattr(instance, field, v) that never meets __restrict_modification
InstSetAttrUnlocked(ts, hp, instance, field, v) ==
    IF field \notin Fields THEN [out |-> "AttributeError", heap |-> hp]
    ELSE [out |-> "ok",
          heap |-> [hp EXCEPT ![instance] =
                      [f \in Fields |-> IF f = field THEN v ELSE hp[instance][f]]
                      @@ [cls |-> hp[instance].cls]]]

\* setattr(instance, field, v); "other" is a name that is no slot
InstSetAttr(ts, hp, instance, field, v) ==
    IF Restricted(ts, hp[instance].cls) THEN [out |-> "TypeError", heap |-> hp]
    ELSE IF field \notin Fields THEN [out |-> "AttributeError", heap |-> hp]
    ELSE [out |-> "ok",
          heap |-> [hp EXCEPT ![instance] =
                      [f \in Fields |-> IF f = field THEN v ELSE hp[instance][f]]
                      @@ [cls |-> hp[instance].cls]]]

\* ------------------------------------------------- __new__, lines 91-95
\* fun is __init_late of the tests and examples:
\*     self.halved_value = self.__class__(self.value // 2)
\* the loop of lines 93-94 going on after an exception of fun
RECURSIVE HookLoopSwallowing(_, _, _, _, _)
HookLoopSwallowing(ts, t, instances, k, acc) ==
    IF k > Len(instances) THEN acc
    ELSE LET instance == instances[k]
             seen == [instance |-> instance,
                      finalized |-> HasFinalized(ts, t),
                      registered |-> Len(ts[t].map)]
             r == CallType(ts, acc.heap, t, acc.heap[instance].value \div 2)
             s == InstSetAttr(ts, acc.heap, instance, "halved_value", r.inst)
         IN IF r.out # "ok" \/ s.out # "ok"
            THEN HookLoopSwallowing(ts, t, instances, k + 1, acc)
            ELSE HookLoopSwallowing(ts, t, instances, k + 1,
                   [heap |-> s.heap, out |-> "ok",
                    late |-> Append(acc.late, seen)])

\* acc.late lists the calls of fun: the instance handed over, and what fun
\* finds when it looks at the class: hasattr(cls, '_finalized') and the
\* size of cls._value_to_instance_map
RECURSIVE HookLoop(_, _, _, _, _)
HookLoop(ts, t, instances, k, acc) ==
    IF k > Len(instances) \/ acc.out # "ok" THEN acc
    ELSE LET instance == instances[k]
             seen == [instance |-> instance,
                      finalized |-> HasFinalized(ts, t),
                      registered |-> Len(ts[t].map)]
             r == CallType(ts, acc.heap, t, acc.heap[instance].value \div 2)
             s == InstSetAttr(ts, acc.heap, instance, "halved_value", r.inst)
         IN IF r.out # "ok" THEN [acc EXCEPT !.out = r.out]
            ELSE IF s.out # "ok" THEN [acc EXCEPT !.out = s.out]
            ELSE HookLoop(ts, t, instances, k + 1,
                   [heap |-> s.heap, out |-> "ok",
                    late |-> Append(acc.late, seen)])

\* the instances fun is called with, line 93
HookInstances(map, attrs, attributes) == MapValues(map)

\* ------------------------------------------------- __new__, lines 41-99
NoAttrs == [n \in {} |-> 0]

NewType(ts, hp, d, bases) ==
    LET attributes == Attributes(d.body)
        assigned == AssignValues(d.zero, d.body)
        resolved == ResolveInit(ts, bases)
        init == IF d.init # "none" THEN d.init
                ELSE IF resolved # "none" THEN resolved ELSE "default"
        t == Len(ts) + 1
        typ == [bases |-> bases, zero |-> d.zero, body |-> d.body,
                attributes |-> attributes,
                light_val |-> assigned.light_val, init |-> init,
                hasMap |-> FALSE, map |-> <<>>, attrs |-> NoAttrs,
                get_installed |-> FALSE, restricted |-> FALSE,
                finalized |-> FALSE, hook |-> d.hook, other |-> {},
                late |-> <<>>]
        failed(out) == [out |-> out, typ |-> 0, types |-> ts, heap |-> hp]
    IN IF attributes = <<>>
       THEN [out |-> "ok", typ |-> t, types |-> Append(ts, typ), heap |-> hp]
       ELSE IF HasFinalized(Append(ts, typ), t) THEN failed("TypeError")
       ELSE
       LET built == BuildLoop(attributes, 1, assigned.namespace, init, t,
                      [map |-> <<>>, attrs |-> NoAttrs, heap |-> hp, out |-> "ok"])
           installed == [typ EXCEPT !.hasMap = TRUE, !.map = built.map,
                                    !.attrs = built.attrs,
                                    !.get_installed = TRUE, !.init = "none"]
           hooked == IF d.hook
                     THEN HookLoop(Append(ts, installed), t,
                                   HookInstances(built.map, built.attrs,
                                                 attributes), 1,
                                   [heap |-> built.heap, out |-> "ok",
                                    late |-> <<>>])
                     ELSE [heap |-> built.heap, out |-> "ok", late |-> <<>>]
           sealed == [installed EXCEPT !.hook = FALSE, !.restricted = TRUE,
                                       !.finalized = TRUE,
                                       !.late = hooked.late]
       IN IF built.out # "ok" THEN failed(built.out)
          ELSE IF hooked.out # "ok" THEN failed(hooked.out)
          ELSE [out |-> "ok", typ |-> t, types |-> Append(ts, sealed),
                heap |-> hooked.heap]

\* ------------------------------------------------------------ actions
Last(op, typ, arg, out, inst, items, d, bases) ==
    [op |-> op, typ |-> typ, arg |-> arg, out |-> out, inst |-> inst,
     items |-> items, decl |-> d, bases |-> bases, res |-> FALSE]

\* class Name(*bases, metaclass=FastEnum): <body d>
Declare(d, bases) ==
    LET r == NewType(types, heap, d, bases)
    IN /\ types' = r.types
       /\ heap' = r.heap
       /\ last' = Last("declare", r.typ, 0, r.out, 0, <<>>, d, bases)

\* typ(val)
Call(typ, val) ==
    /\ GetInstalled(types, typ)
    /\ LET r == CallType(types, heap, typ, val)
       IN last' = Last("call", typ, val, r.out, r.inst, RaisedArgs(r, val),
                       NoDecl, <<>>)
    /\ UNCHANGED <<types, heap>>

\* FastEnum.get(typ, val), the callable __reduce__ hands out (line 166)
GetValue(typ, val) ==
    /\ LET r == Get(types, typ, val)
       IN last' = Last("get", typ, val, r.out, r.inst, RaisedArgs(r, val),
                       NoDecl, <<>>)
    /\ UNCHANGED <<types, heap>>

\* an attribute name that is no member statement of any body
OtherName == 0

\* the name of a slot, 'name' or 'value': every class holds a descriptor
\* of that name in its own dict (lines 54-56)
SlotName == -1

\* getattr(cls, item): the class dicts along the mro
GetAttr(ts, cls, item) ==
    LET o == FirstInMro(ts, cls,
                        {x \in 1..Len(ts) :
                            item \in (DOMAIN ts[x].attrs) \cup ts[x].other})
    IN IF item = SlotName THEN Result("other", 0)
       ELSE IF o = 0 THEN Result("AttributeError", 0)
       ELSE IF item \in DOMAIN ts[o].attrs THEN Result("ok", ts[o].attrs[item])
       ELSE Result("other", 0)

\* typ[item], lines 149-150
GetItem(typ, item) ==
    /\ LET r == GetAttr(types, typ, item)
       IN last' = Last("getitem", typ, item, r.out, r.inst, <<>>, NoDecl, <<>>)
    /\ UNCHANGED <<types, heap>>

\* iter(typ), lines 136-137; a class without its own dict finds the slot
\* descriptor of _value_to_instance_map, which has no values()
IterValues(ts, typ) ==
    IF ts[typ].hasMap THEN [out |-> "ok", items |-> MapValues(ts[typ].map)]
    ELSE [out |-> "AttributeError", items |-> <<>>]

Iter(typ) ==
    /\ LET r == IterValues(types, typ)
       IN last' = Last("iter", typ, 0, r.out, 0, r.items, NoDecl, <<>>)
    /\ UNCHANGED <<types, heap>>

\* typ.has_value(value), lines 152-153; `in` on the slot descriptor a class
\* without members holds raises TypeError
TypeHasValue(ts, typ, value) ==
    IF ts[typ].hasMap THEN [out |-> "ok", res |-> MapHas(ts[typ].map, value)]
    ELSE [out |-> "TypeError", res |-> FALSE]

HasValue(typ, value) ==
    /\ LET r == TypeHasValue(types, typ, value)
       IN last' = [Last("has_value", typ, value, r.out, 0, <<>>, NoDecl, <<>>)
                      EXCEPT !.res = r.res]
    /\ UNCHANGED <<types, heap>>

\* setattr(typ, key, ...), lines 139-142
TypeSetAttr(ts, typ, key) ==
    IF HasFinalized(ts, typ) THEN [out |-> "TypeError", types |-> ts]
    ELSE [out |-> "ok",
          types |-> [ts EXCEPT ![typ].other = ts[typ].other \cup {key}]]

SetAttr(typ, key) ==
    /\ LET r == TypeSetAttr(types, typ, key)
       IN /\ types' = r.types
          /\ last' = Last("setattr", typ, key, r.out, 0, <<>>, NoDecl, <<>>)
    /\ UNCHANGED heap

\* delattr(typ, item), lines 144-147
TypeDelAttr(ts, typ, item) ==
    IF HasFinalized(ts, typ) THEN [out |-> "TypeError", types |-> ts]
    ELSE IF item \in ts[typ].other
    THEN [out |-> "ok",
          types |-> [ts EXCEPT ![typ].other = ts[typ].other \ {item}]]
    ELSE [out |-> "AttributeError", types |-> ts]

DelAttr(typ, item) ==
    /\ LET r == TypeDelAttr(types, typ, item)
       IN /\ types' = r.types
          /\ last' = Last("delattr", typ, item, r.out, 0, <<>>, NoDecl, <<>>)
    /\ UNCHANGED heap

SetAttrInstance(instance, field, v) ==
    /\ LET r == InstSetAttr(types, heap, instance, field, v)
       IN /\ heap' = r.heap
          /\ last' = Last("setattr_instance", heap[instance].cls, instance, r.out,
                          instance, <<>>, NoDecl, <<>>)
    /\ UNCHANGED types

\* delattr(instance, field): an emptied slot reads as 0 here
InstDelAttr(ts, hp, instance, field) == InstSetAttr(ts, hp, instance, field, 0)

DelAttrInstance(instance, field) ==
    /\ LET r == InstDelAttr(types, heap, instance, field)
       IN /\ heap' = r.heap
          /\ last' = Last("delattr_instance", heap[instance].cls, instance, r.out,
                          instance, <<>>, NoDecl, <<>>)
    /\ UNCHANGED types

\* copy.copy(instance) when the class has no __copy__: a new object with
\* the same fields
CopyByFields(hp, instance) ==
    [inst |-> Len(hp) + 1, heap |-> Append(hp, hp[instance])]

\* copy.copy(instance), lines 160-161
Copy(hp, instance) == [inst |-> instance, heap |-> hp]

\* copy.deepcopy(instance), lines 157-158
DeepCopy(hp, instance) == [inst |-> instance, heap |-> hp]

\* instance.__reduce__(), lines 163-166: the callable is get, its arguments
\* are the class of the instance and its value
Reduce(hp, instance) == [typ |-> hp[instance].cls, value |-> hp[instance].value]

\* pickle.loads(pickle.dumps(instance)): the callable applied to its arguments
Loads(ts, reduced) == Get(ts, reduced.typ, reduced.value)

CopyInstance(instance) ==
    /\ LET r == Copy(heap, instance)
       IN /\ heap' = r.heap
          /\ last' = Last("copy", heap[instance].cls, instance, "ok", r.inst,
                          <<>>, NoDecl, <<>>)
    /\ UNCHANGED types

DeepCopyInstance(instance) ==
    /\ LET r == DeepCopy(heap, instance)
       IN /\ heap' = r.heap
          /\ last' = Last("deepcopy", heap[instance].cls, instance, "ok", r.inst,
                          <<>>, NoDecl, <<>>)
    /\ UNCHANGED types

PickleInstance(instance) ==
    /\ LET r == Loads(types, Reduce(heap, instance))
       IN last' = Last("pickle", heap[instance].cls, instance, r.out, r.inst,
                       <<>>, NoDecl, <<>>)
    /\ UNCHANGED <<types, heap>>

\* equality by the value of the two objects
EqByValue(ts, hp, val, other) == hp[val].value = hp[other].value

\* val == other, lines 123-125
Eq(ts, hp, val, other) ==
    /\ hp[val].cls \in MroSet(ts, hp[other].cls)
    /\ val = other

\* hash(instance), lines 127-129
Hash(hp, instance) == hp[instance].value

EqInstances(val, other) ==
    /\ last' = [Last("eq", heap[val].cls, val, "ok", other, <<>>, NoDecl, <<>>)
                  EXCEPT !.res = Eq(types, heap, val, other)]
    /\ UNCHANGED <<types, heap>>

Init ==
    /\ types = <<>>
    /\ heap = <<>>
    /\ last = Last("none", 0, 0, "ok", 0, <<>>, NoDecl, <<>>)

\* the values and names a program asks for: those of the members, and a
\* value and a name that no member has
AskedValues ==
    {heap[i].value : i \in 1..Len(heap)}
        \cup {Max({heap[i].value : i \in 1..Len(heap)}) + 1}

AskedNames ==
    {OtherName, SlotName} \cup 1..Max({Len(types[t].body) : t \in 1..Len(types)})

\* what a program does with the classes it has declared
UseClass ==
    \/ \E typ \in 1..Len(types), val \in AskedValues : Call(typ, val)
    \/ \E typ \in 1..Len(types), val \in AskedValues : GetValue(typ, val)
    \/ \E typ \in 1..Len(types), item \in AskedNames : GetItem(typ, item)
    \/ \E typ \in 1..Len(types) : Iter(typ)
    \/ \E typ \in 1..Len(types), val \in AskedValues : HasValue(typ, val)
    \/ \E typ \in 1..Len(types) : SetAttr(typ, OtherName)
    \/ \E typ \in 1..Len(types) : DelAttr(typ, OtherName)

\* and with their members
UseInstance ==
    \/ \E instance \in 1..Len(heap), field \in AskedFields :
          SetAttrInstance(instance, field, 1)
    \/ \E instance \in 1..Len(heap), field \in AskedFields :
          DelAttrInstance(instance, field)

\* copies, pickles and compares them
UseMember ==
    \/ \E instance \in 1..Len(heap) : CopyInstance(instance)
    \/ \E instance \in 1..Len(heap) : DeepCopyInstance(instance)
    \/ \E instance \in 1..Len(heap) : PickleInstance(instance)
    \/ \E val, other \in 1..Len(heap) : EqInstances(val, other)

\* a module with one stand-alone class whose body holds up to MaxNames
\* member statements
Next ==
    \/ last.op = "none" /\ \E d \in Declarations : Declare(d, <<>>)
    \/ UseClass
    \/ UseInstance

Spec == Init /\ [][Next]_vars

\* a module with a family of up to MaxTypes classes
BasesFor == {<<>>} \cup {<<b>> : b \in 1..Len(types)}

NextFamily ==
    \/ Len(types) < MaxTypes
          /\ \E d \in FamilyDeclarations, bases \in BasesFor : Declare(d, bases)
    \/ UseClass

SpecFamily == Init /\ [][NextFamily]_vars

\* a module with one stand-alone class whose constructor stores a value of
\* its own
NextStored ==
    \/ last.op = "none" /\ \E d \in StoredDeclarations : Declare(d, <<>>)
    \/ UseClass
    \/ UseInstance
    \/ UseMember

SpecStored == Init /\ [][NextStored]_vars

\* a module with a family of classes that also works on their members
NextProgram ==
    \/ Len(types) < MaxModuleTypes
          /\ \E d \in ProgramDeclarations, bases \in BasesFor : Declare(d, bases)
    \/ UseClass
    \/ UseInstance
    \/ UseMember

SpecProgram == Init /\ [][NextProgram]_vars

\* =================================================================
\* Properties
\* =================================================================
\* a class is sealed once line 98 has set _finalized on it
Sealed(t) == types[t].finalized

NamesOf(t) == DOMAIN types[t].attrs

\* the members of a class: the objects its declared names are bound to
Members(t) == {types[t].attrs[n] : n \in NamesOf(t)}

SealedTypes == {t \in 1..Len(types) : Sealed(t)}

\* the declared names that are the first, in source order, to be bound to
\* their member, and the members in that order
FirstNames(t) ==
    SelectSeq(Indices(types[t].body),
              LAMBDA n : \A m \in 1..(n - 1) : types[t].attrs[m] # types[t].attrs[n])

DeclarationOrder(t) ==
    [i \in 1..Len(FirstNames(t)) |-> types[t].attrs[FirstNames(t)[i]]]

\* C1: for every sealed class and every declared member m of it, calling
\* the class with m.value returns the identical object m, and indexing the
\* class with m.name, or with any other name bound to m, returns m.
C1_RoundTrip ==
    /\ (last.op = "call" /\ Sealed(last.typ)) =>
          \A m \in Members(last.typ) :
             heap[m].value = last.arg => (last.out = "ok" /\ last.inst = m)
    /\ (last.op = "getitem" /\ Sealed(last.typ)) =>
          /\ \A m \in Members(last.typ) :
                heap[m].name = last.arg => (last.out = "ok" /\ last.inst = m)
          /\ \A n \in NamesOf(last.typ) :
                n = last.arg =>
                   (last.out = "ok" /\ last.inst = types[last.typ].attrs[n])

\* C2: whenever two declared names of a sealed class resolve to the same
\* value, one member object exists for that value, both names are bound to
\* that object (an index or attribute lookup of either name returns it),
\* and iterating over the class yields that object exactly once.
C2_AliasCollapsing ==
    /\ \A t \in SealedTypes : \A n1, n2 \in NamesOf(t) :
          LET m1 == types[t].attrs[n1]
              m2 == types[t].attrs[n2]
          IN heap[m1].value = heap[m2].value =>
                /\ m1 = m2
                /\ Cardinality({i \in 1..Len(heap) :
                        heap[i].cls = t /\ heap[i].value = heap[m1].value}) = 1
                /\ GetAttr(types, t, n1) = Result("ok", m1)
                /\ GetAttr(types, t, n2) = Result("ok", m1)
                /\ Cardinality({k \in 1..Len(IterValues(types, t).items) :
                        IterValues(types, t).items[k] = m1}) = 1
    /\ (last.op = "iter" /\ Sealed(last.typ)) =>
          \A m \in Members(last.typ) :
             Cardinality({k \in 1..Len(last.items) : last.items[k] = m}) = 1
    /\ (last.op = "getitem" /\ Sealed(last.typ)
           /\ last.arg \in NamesOf(last.typ)) =>
          \A n \in NamesOf(last.typ) :
             heap[types[last.typ].attrs[n]].value
                = heap[types[last.typ].attrs[last.arg]].value
             => last.inst = types[last.typ].attrs[n]

\* two names of a sealed class share a value, and the alias has been looked up
C2_Witness ==
    /\ last.op = "getitem" /\ last.out = "ok" /\ Sealed(last.typ)
    /\ \E n \in NamesOf(last.typ) :
          /\ n < last.arg
          /\ types[last.typ].body[n].kind = "value"
          /\ types[last.typ].body[last.arg].kind = "value"
          /\ types[last.typ].body[n].val = types[last.typ].body[last.arg].val
          /\ last.inst = types[last.typ].attrs[n]
    /\ Len(types[last.typ].map) = 2

\* C3: iterating over a sealed class yields its distinct members in the
\* order their names appear in the class body, also when the body mixes
\* annotated-only and assigned names, and as many items as distinct values.
C3_IterationInDeclarationOrder ==
    (last.op = "iter" /\ Sealed(last.typ)) =>
       /\ last.out = "ok"
       /\ last.items = DeclarationOrder(last.typ)
       /\ Len(last.items)
             = Cardinality({heap[m].value : m \in Members(last.typ)})

AutoNames(t) == {n \in 1..Len(types[t].body) : types[t].body[n].kind = "auto"}

ExplicitNames(t) == (1..Len(types[t].body)) \ AutoNames(t)

Base(t) == IF types[t].zero THEN 0 ELSE 1

ValueOf(t, n) == heap[types[t].attrs[n]].value

\* C4: when every member of a sealed class is annotated only, the i-th
\* member of the body (i = 0..n-1) has value 1 + i without _ZERO_VALUED and
\* value 0 + i with it.
C4_PureAutoNumbering ==
    \A t \in SealedTypes :
       AutoNames(t) = 1..Len(types[t].body) =>
          \A n \in 1..Len(types[t].body) :
             /\ ValueOf(t, n) = Base(t) + (n - 1)
             /\ heap[types[t].attrs[n]].name = n

\* a zero-based class of more than one annotated-only member has been built
C4_Witness ==
    /\ last.op = "declare" /\ last.out = "ok" /\ last.decl.zero
    /\ Len(last.decl.body) > 1
    /\ Sealed(last.typ)
    /\ AutoNames(last.typ) = 1..Len(last.decl.body)

\* C5: the j-th annotated-only name of a sealed class (j counted from 0
\* among the annotated-only names, in source order) has value base + j,
\* whatever assigned names stand between them; when that value is the value
\* of an assigned name, the annotated-only name is bound to the member of
\* the assigned name.
C5_MixedNumbering ==
    \A t \in SealedTypes : \A n \in AutoNames(t) :
       LET j == Cardinality({a \in AutoNames(t) : a < n})
       IN /\ ValueOf(t, n) = Base(t) + j
          /\ \A e \in ExplicitNames(t) :
                types[t].body[e].val = Base(t) + j =>
                   /\ types[t].attrs[n] = types[t].attrs[e]
                   /\ heap[types[t].attrs[n]].name \in ExplicitNames(t)

\* an annotated-only name after an assigned one, itself after an
\* annotated-only one, is bound to the member of the assigned name
C5_Witness ==
    /\ last.op = "declare" /\ last.out = "ok" /\ Sealed(last.typ)
    /\ \E a, n \in AutoNames(last.typ) : \E e \in ExplicitNames(last.typ) :
          /\ a < e /\ e < n
          /\ types[last.typ].attrs[n] = types[last.typ].attrs[e]
          /\ heap[types[last.typ].attrs[n]].name = e

\* C6 as stated: the counter of the value assignment starts at the base
\* and is incremented for every declared member, assigned or annotated
\* only, and an annotated-only member receives the counter's value at its
\* position in the body.
C6_CounterCountsEveryMember ==
    \A t \in SealedTypes :
       /\ types[t].light_val = Base(t) + Len(types[t].body)
       /\ \A n \in AutoNames(t) : ValueOf(t, n) = Base(t) + (n - 1)

\* C6 as amended: the counter starts at the base and is incremented once
\* for every annotated-only member and never for an assigned one; an
\* annotated-only member receives the value the counter has when its
\* annotation is reached, and an assigned member keeps its assigned value.
C6_CounterCountsAutoMembers ==
    \A t \in SealedTypes :
       /\ types[t].light_val = Base(t) + Cardinality(AutoNames(t))
       /\ \A n \in AutoNames(t) :
             ValueOf(t, n) = Base(t) + Cardinality({a \in AutoNames(t) : a < n})
       /\ \A e \in ExplicitNames(t) : ValueOf(t, e) = types[t].body[e].val

\* a class with an assigned name before an annotated-only one has been built
C6_Witness ==
    /\ last.op = "declare" /\ last.out = "ok" /\ Sealed(last.typ)
    /\ \E e \in ExplicitNames(last.typ) : \E n \in AutoNames(last.typ) : e < n
    /\ types[last.typ].light_val < Base(last.typ) + Len(last.decl.body)

\* the class statement just executed names a sealed class as its base
SubclassOfSealed ==
    /\ last.op = "declare"
    /\ last.bases # <<>>
    /\ Sealed(last.bases[1])

\* C7: a class statement whose base is a sealed class and whose body
\* declares at least one member fails with TypeError, and builds neither a
\* class nor a member.
C7_ExtensionGate ==
    [][(SubclassOfSealed /\ last.decl.body # <<>>)'
          => (last'.out = "TypeError" /\ last'.typ = 0
              /\ heap' = heap /\ types' = types)]_vars

\* a subclass of a sealed class that declares a member has been refused
C7_Witness ==
    /\ SubclassOfSealed
    /\ last.decl.body # <<>>
    /\ last.out = "TypeError"
    /\ Members(last.bases[1]) # {}

MemberlessTypes == {t \in 1..Len(types) : types[t].attributes = <<>>}

\* the arguments a member statement hands to the constructor fit it
Fits(init, entry) ==
    IF init = "custom" THEN entry.kind # "auto" /\ entry.extra # 0
    ELSE entry.extra = 0

\* C8: a class without members is never sealed (it carries no _finalized
\* and its attributes can be set) and can be subclassed again and again;
\* each subclass that declares members becomes a sealed class with its own
\* value index and name index, whose members are built by the constructor
\* found in the base from (value, extra arguments, name); sealing it seals
\* neither the base nor a sibling, and members of siblings are distinct
\* objects even when their values are equal.
C8_MemberlessBase ==
    /\ \A t \in MemberlessTypes : ~HasFinalized(types, t)
    /\ (last.op = "setattr" /\ last.typ \in MemberlessTypes) => last.out = "ok"
    /\ (/\ last.op = "declare"
        /\ last.bases # <<>>
        /\ last.bases[1] \in MemberlessTypes
        /\ last.decl.body # <<>>
        /\ \A i \in 1..Len(last.decl.body) :
              Fits(IF last.decl.init # "none" THEN last.decl.init
                   ELSE types[last.bases[1]].init, last.decl.body[i]))
          => (last.out = "ok" /\ Sealed(last.typ))
    /\ \A t \in SealedTypes :
          (types[t].bases # <<>> /\ types[t].bases[1] \in MemberlessTypes) =>
             /\ types[t].hasMap
             /\ \A n \in NamesOf(t) :
                   LET m == types[t].attrs[n]
                   IN /\ heap[m].cls = t
                      /\ heap[m].value = types[t].body[n].val
                      /\ heap[m].desc = types[t].body[n].extra
                      /\ MapGet(types[t].map, heap[m].value) = m
             /\ \A u \in SealedTypes : u # t => Members(u) \cap Members(t) = {}

\* C9: a class statement whose base is a sealed class fails with TypeError,
\* also when its body declares no member.
C9_NoSubclassOfSealed ==
    SubclassOfSealed => last.out = "TypeError"

\* C10: once a class is sealed, assigning or deleting an attribute of one
\* of its members (name, value, an extra field or a new attribute), or an
\* attribute of the class itself, fails with TypeError.
C10_MutationLock ==
    /\ (last.op \in {"setattr", "delattr"} /\ Sealed(last.typ))
          => last.out = "TypeError"
    /\ (last.op \in {"setattr_instance", "delattr_instance"}
           /\ Sealed(heap[last.inst].cls))
          => last.out = "TypeError"

\* an attribute of a member of a sealed class was about to be deleted
C10_Witness ==
    /\ last.op = "delattr_instance"
    /\ Sealed(heap[last.inst].cls)
    /\ last.inst \in Members(heap[last.inst].cls)
    /\ last.out = "TypeError"

\* the objects built for a class: its members and nothing else
InstancesOf(t) == {i \in 1..Len(heap) : heap[i].cls = t}

\* C11: a sealed class stays sealed, and whatever is done next (a lookup,
\* an iteration, a membership test, an attempt to assign or delete an
\* attribute of the class or of a member, an attempt to extend the class)
\* leaves its member sequence, its value index, its name index and every
\* field of every member as they were.
C11_SealedForever ==
    [][\A t \in SealedTypes :
          /\ t \in 1..Len(types')
          /\ types'[t].finalized
          /\ types'[t].map = types[t].map
          /\ types'[t].attrs = types[t].attrs
          /\ IterValues(types', t) = IterValues(types, t)
          /\ \A i \in InstancesOf(t) : i \in 1..Len(heap') /\ heap'[i] = heap[i]
          /\ \A i \in 1..Len(heap') : heap'[i].cls = t => i \in InstancesOf(t)]_vars

\* a class without members has been derived from a sealed class, which
\* still holds its members
C11_Witness ==
    /\ SubclassOfSealed
    /\ last.out = "ok"
    /\ Members(last.bases[1]) # {}
    /\ Len(types[last.bases[1]].map) = Cardinality(Members(last.bases[1]))

\* the constructor and the values of the class statement just executed
DeclaredInit ==
    IF last.decl.init # "none" THEN last.decl.init
    ELSE ResolveInit(types, last.bases)

DeclaredValues ==
    LET namespace == AssignValues(last.decl.zero, last.decl.body).namespace
    IN {namespace[n].val : n \in DOMAIN namespace}

\* the instances __init_late was called with, in the order of the calls
LateInstances(t) == [k \in 1..Len(types[t].late) |-> types[t].late[k].instance]

\* C12: __init_late is called exactly once for every distinct member and
\* never a second time for an alias; at every call all members of the class
\* are built and typ(value) resolves every sibling, also one built later;
\* at every call the class is not yet locked, so that the hook can assign
\* the member's own fields.
C12_LateInitOrdering ==
    /\ (/\ last.op = "declare" /\ last.decl.hook /\ last.decl.body # <<>>
        /\ (last.bases # <<>> => ~HasFinalized(types, last.bases[1]))
        /\ \A i \in 1..Len(last.decl.body) :
              Fits(DeclaredInit, last.decl.body[i])
        /\ \A v \in DeclaredValues : (v \div 2) \in DeclaredValues)
          => (last.out = "ok" /\ types[last.typ].late # <<>>)
    /\ \A t \in SealedTypes : types[t].late # <<>> =>
          /\ LateInstances(t) = MapValues(types[t].map)
          /\ Cardinality({LateInstances(t)[k] : k \in 1..Len(types[t].late)})
                = Len(types[t].late)
          /\ {LateInstances(t)[k] : k \in 1..Len(types[t].late)} = Members(t)
          /\ \A k \in 1..Len(types[t].late) :
                /\ types[t].late[k].registered = Cardinality(Members(t))
                /\ ~types[t].late[k].finalized
          /\ \A m \in Members(t) :
                /\ heap[m].halved_value \in Members(t)
                /\ heap[heap[m].halved_value].value = heap[m].value \div 2

\* C13: typ(val) and get(typ, val) on a sealed class, for a value that no
\* member has, raise the error that names val, return no member, and leave
\* the classes and the members as they were.
C13_UnknownValue ==
    [][(/\ last.op \in {"call", "get"}
        /\ Sealed(last.typ)
        /\ \A m \in Members(last.typ) : heap[m].value # last.arg)'
          => /\ last'.out = "ValueError"
             /\ last'.inst = 0
             /\ last'.items = <<last'.arg>>
             /\ types' = types
             /\ heap' = heap]_vars

\* a sealed class has been called with a value none of its members has
C13_Witness ==
    /\ last.op = "call"
    /\ Sealed(last.typ)
    /\ Members(last.typ) # {}
    /\ \A m \in Members(last.typ) : heap[m].value # last.arg
    /\ last.out = "ValueError"
    /\ last.items = <<last.arg>>

\* C14: typ[item] on a sealed class returns a member if and only if item
\* is a declared name of the class, alias or not; for every other item,
\* the name of an attribute of the class that is no member included, it
\* raises the lookup error and never returns an object that is no member.
C14_NameLookup ==
    (last.op = "getitem" /\ Sealed(last.typ)) =>
       /\ (last.out = "ok") <=> (last.arg \in NamesOf(last.typ))
       /\ (last.out = "ok") => (last.inst \in Members(last.typ))
       /\ (last.arg \notin NamesOf(last.typ)) => (last.out = "AttributeError")

\* C15: for every member m of a sealed class copy(m) is m, deepcopy(m) is
\* m, m reduces to get with the arguments (class of m, m.value), and
\* loading the pickled m returns the identical object m.
C15_CopyAndPickle ==
    /\ (last.op \in {"copy", "deepcopy", "pickle"} /\ Sealed(last.typ)) =>
          /\ last.out = "ok"
          /\ last.inst = last.arg
    /\ \A t \in SealedTypes : \A m \in Members(t) :
          /\ Reduce(heap, m) = [typ |-> t, value |-> heap[m].value]
          /\ Loads(types, Reduce(heap, m)) = Result("ok", m)
          /\ Copy(heap, m).heap = heap
          /\ DeepCopy(heap, m) = [inst |-> m, heap |-> heap]

\* a member of a class that has a base class has been pickled and loaded
C15_Witness ==
    /\ last.op = "pickle" /\ last.out = "ok"
    /\ Sealed(last.typ)
    /\ types[last.typ].bases # <<>>
    /\ last.arg \in Members(last.typ)
    /\ last.inst = last.arg

\* C16: for two members a and b, of one class or of two, a == b holds if
\* and only if a and b are the same object; members of two classes with
\* equal values, and so with equal hashes, are not equal.
C16_EqualityIsIdentity ==
    /\ last.op = "eq" => (last.res <=> (last.arg = last.inst))
    /\ \A a, b \in 1..Len(heap) :
          /\ Eq(types, heap, a, b) <=> (a = b)
          /\ (heap[a].cls # heap[b].cls /\ heap[a].value = heap[b].value) =>
                (Hash(heap, a) = Hash(heap, b) /\ ~Eq(types, heap, a, b))

\* members of two classes with equal values and hashes have been compared
C16_Witness ==
    /\ last.op = "eq"
    /\ heap[last.arg].cls # heap[last.inst].cls
    /\ heap[last.arg].value = heap[last.inst].value
    /\ Hash(heap, last.arg) = Hash(heap, last.inst)
    /\ ~last.res

\* C17: for every sealed class and every value v, has_value(v) is true if
\* and only if typ(v) returns a member, and false if and only if typ(v)
\* raises the lookup error.
C17_HasValueAgreesWithRetrieval ==
    /\ \A t \in SealedTypes : \A v \in AskedValues :
          LET h == TypeHasValue(types, t, v)
              r == CallType(types, heap, t, v)
          IN /\ h.out = "ok"
             /\ h.res <=> (r.out = "ok" /\ r.inst \in Members(t))
             /\ ~h.res <=> (r.out = "ValueError")
    /\ (last.op = "has_value" /\ Sealed(last.typ)) =>
          (last.res <=> CallType(types, heap, last.typ, last.arg).out = "ok")

\* what a class statement that ends without exception hands over: a class
\* without members, or a sealed class with all its names bound, all its
\* members registered and locked, and __init_late run for each of them
Complete(ts, hp, t) ==
    ts[t].attributes = <<>>
    \/ /\ ts[t].finalized /\ ts[t].restricted /\ ts[t].hasMap
       /\ DOMAIN ts[t].attrs = {ts[t].attributes[k] : k \in 1..Len(ts[t].attributes)}
       /\ {ts[t].attrs[n] : n \in DOMAIN ts[t].attrs}
             = {ts[t].map[k].inst : k \in 1..Len(ts[t].map)}
       /\ {ts[t].map[k].inst : k \in 1..Len(ts[t].map)}
             = {i \in 1..Len(hp) : hp[i].cls = t}

\* what the code that follows a class statement finds
AtomicForCallers ==
    /\ (last.op = "declare" /\ last.out # "ok")' =>
          (types' = types /\ heap' = heap /\ last'.typ = 0)
    /\ (last.op = "declare" /\ last.out = "ok")' =>
          /\ Len(types') = Len(types) + 1
          /\ last'.typ = Len(types')
          /\ \A t \in 1..Len(types) : types'[t] = types[t]
          /\ \A i \in 1..Len(heap) : heap'[i] = heap[i]
          /\ (last'.decl.hook /\ last'.decl.body # <<>>) =>
                [k \in 1..Len(types'[last'.typ].late) |->
                    types'[last'.typ].late[k].instance]
                   = MapValues(types'[last'.typ].map)
    /\ \A t \in 1..Len(types') : Complete(types', heap', t)

\* C18 as stated: no code finds a class partially built (some members
\* registered and others not, or members present and the class not yet
\* sealed), __init_late included; and when a constructor, the hook or an
\* illegal extension fails, no class and no member of the failed class
\* statement is left.
C18_NoCodeSeesPartialType ==
    [][/\ AtomicForCallers
       /\ \A t \in 1..Len(types') : \A k \in 1..Len(types'[t].late) :
             types'[t].late[k].finalized]_vars

\* C18 as amended: the code that follows the class statement finds either
\* a class that is complete (all names bound, all members registered, the
\* hook run for each, the class sealed) or, after a failure, no class and
\* no member of that statement and every earlier class as it was; only the
\* constructor and __init_late of the class statement itself run on the
\* class that is being built, and __init_late finds all members registered
\* and the class not yet sealed.
C18_AtomicForCallers ==
    [][/\ AtomicForCallers
       /\ \A t \in 1..Len(types') : \A k \in 1..Len(types'[t].late) :
             /\ ~types'[t].late[k].finalized
             /\ types'[t].late[k].registered = Len(types'[t].map)]_vars

\* the constructor of a class statement has failed next to a sealed class,
\* and the statement has left no class behind
C18_Witness ==
    /\ last.op = "declare" /\ last.out = "TypeError" /\ last.typ = 0
    /\ last.bases = <<>>
    /\ ~last.decl.hook
    /\ SealedTypes # {}
    /\ \A t \in 1..Len(types) : Complete(types, heap, t)

\* C19: a member bound to more than one declared name carries the name
\* that comes first in the class body among those names, whether the names
\* are assigned or annotated only.
C19_FirstDeclaredName ==
    \A t \in SealedTypes : \A m \in Members(t) :
       LET names == {n \in NamesOf(t) : types[t].attrs[n] = m}
       IN Cardinality(names) > 1 =>
             /\ heap[m].name \in names
             /\ \A n \in names : heap[m].name <= n

\* the namespace the members of a class are built from
NamespaceOf(t) == AssignValues(types[t].zero, types[t].body).namespace

\* the name the loop of lines 67-76 meets first among those with value v
FirstProcessed(t, v) ==
    LET attributes == types[t].attributes
        ks == {k \in 1..Len(attributes) : NamespaceOf(t)[attributes[k]].val = v}
    IN attributes[CHOOSE k \in ks : \A j \in ks : k <= j]

\* C20: the constructor is called exactly once for every distinct value
\* of the class body, with the value, the extra argument and the name of
\* the first name processed for that value; it is not called for a name
\* whose value is registered already, which is only bound to the member.
C20_ConstructedOncePerValue ==
    \A t \in SealedTypes :
       /\ \A n \in NamesOf(t) :
             LET v == NamespaceOf(t)[n].val
                 built == {i \in InstancesOf(t) : heap[i].value = v}
                 first == FirstProcessed(t, v)
             IN /\ Cardinality(built) = 1
                /\ built = {types[t].attrs[n]}
                /\ heap[types[t].attrs[n]].name = first
                /\ heap[types[t].attrs[n]].desc = NamespaceOf(t)[first].extra
       /\ Cardinality(InstancesOf(t))
             = Cardinality({NamespaceOf(t)[n].val : n \in NamesOf(t)})

\* a class with a constructor of its own has an alias whose extra argument
\* differs from the one its member was built with
C20_Witness ==
    /\ last.op = "declare" /\ last.out = "ok" /\ last.decl.init = "custom"
    /\ Sealed(last.typ)
    /\ \E n, a \in NamesOf(last.typ) :
          /\ n < a
          /\ types[last.typ].attrs[a] = types[last.typ].attrs[n]
          /\ last.decl.body[a].extra # last.decl.body[n].extra
          /\ heap[types[last.typ].attrs[a]].desc = last.decl.body[n].extra

\* C21: in every sealed class each entry k -> m of the value index has
\* m.value = k, and every member bound to a declared name is in the value
\* index under its own value (no member built is overwritten or left
\* without entry), also when the constructor stores another value than the
\* declared one.
C21_ValueIndexConsistent ==
    \A t \in SealedTypes :
       /\ \A k \in 1..Len(types[t].map) :
             heap[types[t].map[k].inst].value = types[t].map[k].key
       /\ \A m \in Members(t) :
             /\ MapHas(types[t].map, heap[m].value)
             /\ MapGet(types[t].map, heap[m].value) = m
       /\ \A i \in InstancesOf(t) : \E k \in 1..Len(types[t].map) :
             types[t].map[k].inst = i

\* the names of the body that carry both an annotation and a value
AnnotatedAssigned(t) ==
    {n \in 1..Len(types[t].body) : types[t].body[n].kind = "annval"}

\* how often x occurs in the sequence seq
Occurrences(seq, x) == Cardinality({k \in 1..Len(seq) : seq[k] = x})

\* C22: a name declared with an annotation and a value stands twice in the
\* list of names the builder processes, and yet has one member, built by
\* one call of the constructor, handed once to __init_late and yielded once
\* by the iteration; it does not advance the counter of the auto-numbering.
C22_AnnotatedAssignedOnce ==
    \A t \in SealedTypes :
       /\ \A n \in AnnotatedAssigned(t) :
             LET m == types[t].attrs[n]
             IN /\ Occurrences(types[t].attributes, n) = 2
                /\ heap[m].value = types[t].body[n].val
                /\ Cardinality({i \in InstancesOf(t) :
                        heap[i].value = types[t].body[n].val}) = 1
                /\ Cardinality({i \in InstancesOf(t) : heap[i].name = n}) <= 1
                /\ types[t].late # <<>> => Occurrences(LateInstances(t), m) = 1
                /\ Occurrences(IterValues(types, t).items, m) = 1
       /\ types[t].light_val = Base(t) + Cardinality(AutoNames(t))
       /\ AnnotatedAssigned(t) # {} =>
             Cardinality(InstancesOf(t)) < Len(types[t].attributes)

\* a hooked class has been built whose first name carries an annotation
\* and a value, followed by an annotated-only name
C22_Witness ==
    /\ last.op = "declare" /\ last.out = "ok" /\ last.decl.hook
    /\ Sealed(last.typ)
    /\ 1 \in AnnotatedAssigned(last.typ)
    /\ heap[types[last.typ].attrs[1]].name = 1
    /\ \E a \in AutoNames(last.typ) :
          types[last.typ].attrs[a] # types[last.typ].attrs[1]
    /\ Len(types[last.typ].late) = Len(types[last.typ].map)
====
